---- MODULE Spec2Model ----
(***************************************************************************)
(* Model of chia-consensus' flag set (src/flags.rs), heap policy           *)
(* (src/allocator.rs) and the two fuzz targets that drive the generator    *)
(* runners and the condition parser.                                       *)
(*                                                                         *)
(* A flag value is the set of the bit positions set in its u32; the        *)
(* bitflags operations are the bitwise operations on it.                   *)
(***************************************************************************)
EXTENDS Integers, Sequences, FiniteSets

VARIABLES
    pc,         \* position inside the entry point that runs
    origin,     \* how the ConsensusFlags value was constructed
    flags,      \* the ConsensusFlags value of the call
    clvm_in,    \* the ClvmFlags value handed to from_clvm_flags (or NoClvm)
    clvm_out,   \* the ClvmFlags value to_clvm_flags returned (or NoClvm)
    heap,       \* the limit of the Allocator make_allocator returned (or NoHeap)
    r1,         \* run-generator: what run_block_generator returned
    r2,         \* run-generator: what run_block_generator2 returned
    verdict,    \* run-generator: how the fuzz target's match ended
    conds,      \* cost run: the cost of each condition of the input, in order
    max_cost,   \* cost run: the budget of the call
    spent,      \* cost run: cost_already_spent, the evaluator's execution cost
    running,    \* cost run: the parser's running cost
    idx,        \* cost run: the next condition to decode
    result      \* cost run: "none", "Ok" or "CostExceeded"

flagVars == <<origin, clvm_in, clvm_out, heap>>
fuzzVars == <<r1, r2, verdict>>
costVars == <<conds, max_cost, spent, running, idx, result>>
vars == <<pc, flags, flagVars, fuzzVars, costVars>>

----------------------------------------------------------------------------
(* The u32 underlying both flag types, as the set of its one-bits *)

\* the one-bits of the integer literal n (n < 2^31)
BitsOf(n) == {i \in 0..30 : (n \div (2^i)) % 2 = 1}

\* bitflags: self.bits(), the raw integer (of a value below 2^31)
RECURSIVE bits(_)
bits(self) ==
    IF self = {} THEN 0
    ELSE LET i == CHOOSE j \in self : TRUE
         IN  2^i + bits(self \ {i})

\* bitflags: self.contains(other) is self & other == other
contains(self, other) == (self \cap other) = other
\* bitflags: self.union(other) and self.insert(other) are self | other
union(self, other) == self \cup other
\* bitflags: self.intersection(other) is self & other
intersection(self, other) == self \cap other
\* bitflags: self.difference(other) is self & !other
difference(self, other) == self \ other
is_empty(self) == self = {}
empty == {}

----------------------------------------------------------------------------
(* ConsensusFlags *)

CANONICAL_INTS == BitsOf(1)
NO_UNKNOWN_OPS == BitsOf(2)
LIMIT_HEAP == BitsOf(4)
\* faulty variant: 0x0080 written for 0x0100
ENABLE_KECCAK_OPS_OUTSIDE_GUARD_0x0080 == BitsOf(128)
ENABLE_KECCAK_OPS_OUTSIDE_GUARD == BitsOf(256)
DISABLE_OP == BitsOf(512)
ENABLE_SHA256_TREE == BitsOf(1024)
ENABLE_SECP_OPS == BitsOf(2048)
\* faulty variant: 0x1000 written for 0x1_0000
DONT_VALIDATE_SIGNATURE_0x1000 == BitsOf(4096)
DONT_VALIDATE_SIGNATURE == BitsOf(65536)
NO_UNKNOWN_CONDS == BitsOf(131072)
COMPUTE_FINGERPRINT == BitsOf(262144)
STRICT_ARGS_COUNT == BitsOf(524288)
\* faulty variant: 0x8_0000 written for 0x80_0000
COST_CONDITIONS_0x80000 == BitsOf(524288)
COST_CONDITIONS == BitsOf(8388608)
SIMPLE_GENERATOR == BitsOf(16777216)

\* ConsensusFlags::FLAGS, the named flags in declaration order
FLAGS ==
    << [name |-> "CANONICAL_INTS", bits |-> CANONICAL_INTS],
       [name |-> "NO_UNKNOWN_OPS", bits |-> NO_UNKNOWN_OPS],
       [name |-> "LIMIT_HEAP", bits |-> LIMIT_HEAP],
       [name |-> "ENABLE_KECCAK_OPS_OUTSIDE_GUARD", bits |-> ENABLE_KECCAK_OPS_OUTSIDE_GUARD],
       [name |-> "DISABLE_OP", bits |-> DISABLE_OP],
       [name |-> "ENABLE_SHA256_TREE", bits |-> ENABLE_SHA256_TREE],
       [name |-> "ENABLE_SECP_OPS", bits |-> ENABLE_SECP_OPS],
       [name |-> "DONT_VALIDATE_SIGNATURE", bits |-> DONT_VALIDATE_SIGNATURE],
       [name |-> "NO_UNKNOWN_CONDS", bits |-> NO_UNKNOWN_CONDS],
       [name |-> "COMPUTE_FINGERPRINT", bits |-> COMPUTE_FINGERPRINT],
       [name |-> "STRICT_ARGS_COUNT", bits |-> STRICT_ARGS_COUNT],
       [name |-> "COST_CONDITIONS", bits |-> COST_CONDITIONS],
       [name |-> "SIMPLE_GENERATOR", bits |-> SIMPLE_GENERATOR] >>

(* clvmr::chia_dialect::ClvmFlags, as this crate relies on it: the seven    *)
(* flags from_clvm_flags and to_clvm_flags name, with the bits the crate's  *)
(* test clvm_flags_bits_match_consensus_flags requires of them.             *)
ClvmFlags_CANONICAL_INTS == BitsOf(1)
ClvmFlags_NO_UNKNOWN_OPS == BitsOf(2)
ClvmFlags_LIMIT_HEAP == BitsOf(4)
ClvmFlags_ENABLE_KECCAK_OPS_OUTSIDE_GUARD == BitsOf(256)
ClvmFlags_DISABLE_OP == BitsOf(512)
ClvmFlags_ENABLE_SHA256_TREE == BitsOf(1024)
ClvmFlags_ENABLE_SECP_OPS == BitsOf(2048)

\* ClvmFlags::FLAGS
ClvmFlags_FLAGS ==
    << [name |-> "CANONICAL_INTS", bits |-> ClvmFlags_CANONICAL_INTS],
       [name |-> "NO_UNKNOWN_OPS", bits |-> ClvmFlags_NO_UNKNOWN_OPS],
       [name |-> "LIMIT_HEAP", bits |-> ClvmFlags_LIMIT_HEAP],
       [name |-> "ENABLE_KECCAK_OPS_OUTSIDE_GUARD", bits |-> ClvmFlags_ENABLE_KECCAK_OPS_OUTSIDE_GUARD],
       [name |-> "DISABLE_OP", bits |-> ClvmFlags_DISABLE_OP],
       [name |-> "ENABLE_SHA256_TREE", bits |-> ClvmFlags_ENABLE_SHA256_TREE],
       [name |-> "ENABLE_SECP_OPS", bits |-> ClvmFlags_ENABLE_SECP_OPS] >>

\* the union of the flags fs[i], i \in S
RECURSIVE UnionOf(_, _)
UnionOf(fs, S) ==
    IF S = {} THEN empty
    ELSE LET i == CHOOSE j \in S : TRUE
         IN  union(fs[i].bits, UnionOf(fs, S \ {i}))

\* bitflags: Self::all(), the union of every named flag
all == UnionOf(FLAGS, DOMAIN FLAGS)
ClvmFlags_all == UnionOf(ClvmFlags_FLAGS, DOMAIN ClvmFlags_FLAGS)

\* bitflags: Self::from_bits_truncate(bits), unknown bits dropped
from_bits_truncate(b) == intersection(b, all)

\* bitflags: Self::from_name(name); NoFlag stands for None
NoFlag == {0 - 1}
from_name(name) ==
    LET S == {i \in DOMAIN FLAGS : FLAGS[i].name = name}
    IN  IF S = {} THEN NoFlag ELSE FLAGS[CHOOSE i \in S : TRUE].bits

\* faulty variant: the DISABLE_OP arm sets the flag of the arm after it
from_clvm_flags_wrong_arm(clvm) ==
    LET o1 == IF contains(clvm, ClvmFlags_CANONICAL_INTS)
              THEN union(empty, CANONICAL_INTS) ELSE empty
        o2 == IF contains(clvm, ClvmFlags_NO_UNKNOWN_OPS)
              THEN union(o1, NO_UNKNOWN_OPS) ELSE o1
        o3 == IF contains(clvm, ClvmFlags_LIMIT_HEAP)
              THEN union(o2, LIMIT_HEAP) ELSE o2
        o4 == IF contains(clvm, ClvmFlags_ENABLE_KECCAK_OPS_OUTSIDE_GUARD)
              THEN union(o3, ENABLE_KECCAK_OPS_OUTSIDE_GUARD) ELSE o3
        o5 == IF contains(clvm, ClvmFlags_DISABLE_OP)
              THEN union(o4, ENABLE_SHA256_TREE) ELSE o4
        o6 == IF contains(clvm, ClvmFlags_ENABLE_SHA256_TREE)
              THEN union(o5, ENABLE_SHA256_TREE) ELSE o5
        o7 == IF contains(clvm, ClvmFlags_ENABLE_SECP_OPS)
              THEN union(o6, ENABLE_SECP_OPS) ELSE o6
    IN  o7

from_clvm_flags(clvm) ==
    LET o1 == IF contains(clvm, ClvmFlags_CANONICAL_INTS)
              THEN union(empty, CANONICAL_INTS) ELSE empty
        o2 == IF contains(clvm, ClvmFlags_NO_UNKNOWN_OPS)
              THEN union(o1, NO_UNKNOWN_OPS) ELSE o1
        o3 == IF contains(clvm, ClvmFlags_LIMIT_HEAP)
              THEN union(o2, LIMIT_HEAP) ELSE o2
        o4 == IF contains(clvm, ClvmFlags_ENABLE_KECCAK_OPS_OUTSIDE_GUARD)
              THEN union(o3, ENABLE_KECCAK_OPS_OUTSIDE_GUARD) ELSE o3
        o5 == IF contains(clvm, ClvmFlags_DISABLE_OP)
              THEN union(o4, DISABLE_OP) ELSE o4
        o6 == IF contains(clvm, ClvmFlags_ENABLE_SHA256_TREE)
              THEN union(o5, ENABLE_SHA256_TREE) ELSE o5
        o7 == IF contains(clvm, ClvmFlags_ENABLE_SECP_OPS)
              THEN union(o6, ENABLE_SECP_OPS) ELSE o6
    IN  o7

\* faulty variant: the bits are handed over as they are
to_clvm_flags_retain_bits(self) == self

to_clvm_flags(self) ==
    LET o1 == IF contains(self, CANONICAL_INTS)
              THEN union(empty, ClvmFlags_CANONICAL_INTS) ELSE empty
        o2 == IF contains(self, NO_UNKNOWN_OPS)
              THEN union(o1, ClvmFlags_NO_UNKNOWN_OPS) ELSE o1
        o3 == IF contains(self, LIMIT_HEAP)
              THEN union(o2, ClvmFlags_LIMIT_HEAP) ELSE o2
        o4 == IF contains(self, ENABLE_KECCAK_OPS_OUTSIDE_GUARD)
              THEN union(o3, ClvmFlags_ENABLE_KECCAK_OPS_OUTSIDE_GUARD) ELSE o3
        o5 == IF contains(self, DISABLE_OP)
              THEN union(o4, ClvmFlags_DISABLE_OP) ELSE o4
        o6 == IF contains(self, ENABLE_SHA256_TREE)
              THEN union(o5, ClvmFlags_ENABLE_SHA256_TREE) ELSE o5
        o7 == IF contains(self, ENABLE_SECP_OPS)
              THEN union(o6, ClvmFlags_ENABLE_SECP_OPS) ELSE o6
    IN  o7

\* faulty variant: the union with STRICT_ARGS_COUNT is missing
MEMPOOL_MODE_without_strict(CLVM_MEMPOOL_MODE) ==
    union(from_clvm_flags(CLVM_MEMPOOL_MODE), NO_UNKNOWN_CONDS)

\* pub const MEMPOOL_MODE, for the value clvmr::MEMPOOL_MODE has
MEMPOOL_MODE(CLVM_MEMPOOL_MODE) ==
    union(union(from_clvm_flags(CLVM_MEMPOOL_MODE), NO_UNKNOWN_CONDS), STRICT_ARGS_COUNT)

\* impl Default for ConsensusFlags
default == empty

----------------------------------------------------------------------------
(* Heap policy.  A byte count is a pair <<hi, lo>> of 16-bit limbs, value   *)
(* hi * 65536 + lo, so that u32::MAX keeps its value.                       *)

U32Less(a, b) == a[1] < b[1] \/ (a[1] = b[1] /\ a[2] < b[2])

\* 500_000_000 = 7629 * 65536 + 25856
HEAP_LIMIT == <<7629, 25856>>
\* u32::MAX as usize = 65535 * 65536 + 65535
U32_MAX == <<65535, 65535>>

\* Allocator::new_limited(heap_limit): the allocator is its limit
new_limited(heap_limit) == heap_limit

\* faulty variant: the two branches are exchanged
make_allocator_exchanged(fl) ==
    IF contains(fl, LIMIT_HEAP)
    THEN new_limited(U32_MAX)
    ELSE new_limited(HEAP_LIMIT)

make_allocator(fl) ==
    IF contains(fl, LIMIT_HEAP)
    THEN new_limited(HEAP_LIMIT)
    ELSE new_limited(U32_MAX)

----------------------------------------------------------------------------
NoClvm == {0 - 1}
NoHeap == <<>>

\* every value of each flag type made of named flags
ConsensusValues == {UnionOf(FLAGS, S) : S \in SUBSET DOMAIN FLAGS}
ClvmValues == {UnionOf(ClvmFlags_FLAGS, S) : S \in SUBSET DOMAIN ClvmFlags_FLAGS}

\* bits no ConsensusFlags flag names, as a Python caller may pass them
UnknownBits == {{}, BitsOf(8), BitsOf(4096), {31}, {3, 12, 20, 31}}
PyInts == {union(s, u) : s \in ConsensusValues, u \in UnknownBits}

----------------------------------------------------------------------------
(* The run-generator fuzz target: both engines on one input, then the match *)

MaxCost == 1
MaxAmount == 1

ErrorCodes == {"CostExceeded", "GeneratorRuntimeError", "InvalidCondition"}

\* the fields of SpendBundleConditions the fuzz target reads
Conditions ==
    [cost : 0..MaxCost, execution_cost : 0..MaxCost, condition_cost : 0..MaxAmount,
     reserve_fee : 0..MaxAmount, removal_amount : 0..MaxAmount,
     addition_amount : 0..MaxAmount]

NoConditions ==
    [cost |-> 0, execution_cost |-> 0, condition_cost |-> 0,
     reserve_fee |-> 0, removal_amount |-> 0, addition_amount |-> 0]

\* Result<(_, SpendBundleConditions), ValidationErr>: Ok((_, c)) and Err(ValidationErr(_, e))
Ok(c) == [ok |-> TRUE, code |-> "", c |-> c]
Err(e) == [ok |-> FALSE, code |-> e, c |-> NoConditions]
Results == {Ok(c) : c \in Conditions} \cup {Err(e) : e \in ErrorCodes}
NoResult == [ok |-> FALSE, code |-> "", c |-> NoConditions]

\* the (Ok((_, a)), Ok((_, b))) arm: the first assertion that fails panics
CompareConditions(a, b) ==
    IF ~(a.cost >= b.cost) THEN "assertion failed: a.cost >= b.cost"
    ELSE IF ~(a.execution_cost > b.execution_cost)
        THEN "assertion failed: a.execution_cost > b.execution_cost"
    ELSE IF a.condition_cost # b.condition_cost
        THEN "assertion failed: a.condition_cost == b.condition_cost"
    ELSE IF a.reserve_fee # b.reserve_fee
        THEN "assertion failed: a.reserve_fee == b.reserve_fee"
    ELSE IF a.removal_amount # b.removal_amount
        THEN "assertion failed: a.removal_amount == b.removal_amount"
    ELSE IF a.addition_amount # b.addition_amount
        THEN "assertion failed: a.addition_amount == b.addition_amount"
    ELSE "accepted"

\* faulty variant: the first arm takes any error of run_block_generator
MatchResults_any_error(x1, x2) ==
    IF ~x1.ok /\ x2.ok THEN "accepted"
    ELSE IF ~x1.ok /\ ~x2.ok THEN "accepted"
    ELSE IF x1.ok /\ x2.ok THEN CompareConditions(x1.c, x2.c)
    ELSE "failed"

\* match (r1, r2): "accepted" when an arm returns, else the panic's message
MatchResults(x1, x2) ==
    IF ~x1.ok /\ x1.code = "CostExceeded" /\ x2.ok THEN "accepted"
    ELSE IF ~x1.ok /\ ~x2.ok THEN "accepted"
    ELSE IF x1.ok /\ x2.ok THEN CompareConditions(x1.c, x2.c)
    ELSE "failed"

----------------------------------------------------------------------------
(* Cost accounting of a generator run: the evaluator under the budget, then *)
(* the condition parser adding each decoded condition's cost                *)

MaxConds == 3
MaxCondCost == 2
MaxExecCost == 2
MaxBudget == MaxExecCost + MaxConds * MaxCondCost

RECURSIVE SeqsUpTo(_, _)
SeqsUpTo(S, n) ==
    IF n = 0 THEN {<<>>}
    ELSE LET shorter == SeqsUpTo(S, n - 1)
         IN  shorter \cup {Append(q, x) : q \in shorter, x \in S}

CondLists == SeqsUpTo(0..MaxCondCost, MaxConds)

\* the cost of the first n conditions
RECURSIVE PrefixCost(_, _)
PrefixCost(cs, n) == IF n = 0 THEN 0 ELSE PrefixCost(cs, n - 1) + cs[n]

\* faulty variant: the budget itself already counts as exceeded
CostExceeded_at_budget(already, rc, budget) == already + rc >= budget

\* the parser's budget check after a condition brought the running cost to rc
CostExceeded(already, rc, budget) == already + rc > budget

----------------------------------------------------------------------------
Init ==
    /\ pc = "start"
    /\ flags = default
    /\ origin = "none"
    /\ clvm_in = NoClvm
    /\ clvm_out = NoClvm
    /\ heap = NoHeap
    /\ r1 = NoResult
    /\ r2 = NoResult
    /\ verdict = "none"
    /\ conds = <<>>
    /\ max_cost = 0
    /\ spent = 0
    /\ running = 0
    /\ idx = 1
    /\ result = "none"

\* FromPyObject::extract: the caller's integer, truncated to the named flags
Extract ==
    /\ pc = "start"
    /\ \E b \in PyInts : flags' = from_bits_truncate(b)
    /\ origin' = "extract"
    /\ pc' = "built"
    /\ UNCHANGED <<clvm_in, clvm_out, heap, fuzzVars, costVars>>

\* ConsensusFlags::default()
Default ==
    /\ pc = "start"
    /\ flags' = default
    /\ origin' = "default"
    /\ pc' = "built"
    /\ UNCHANGED <<clvm_in, clvm_out, heap, fuzzVars, costVars>>

\* ConsensusFlags::from_clvm_flags(x) for an evaluator flag value x
FromClvm ==
    /\ pc = "start"
    /\ \E x \in ClvmValues :
          /\ clvm_in' = x
          /\ flags' = from_clvm_flags(x)
    /\ origin' = "from_clvm"
    /\ pc' = "built"
    /\ UNCHANGED <<clvm_out, heap, fuzzVars, costVars>>

\* the constant MEMPOOL_MODE, whatever clvmr::MEMPOOL_MODE is
UseMempoolMode ==
    /\ pc = "start"
    /\ \E m \in ClvmValues :
          /\ clvm_in' = m
          /\ flags' = MEMPOOL_MODE(m)
    /\ origin' = "mempool"
    /\ pc' = "built"
    /\ UNCHANGED <<clvm_out, heap, fuzzVars, costVars>>

MakeAllocator ==
    /\ pc = "built" /\ heap = NoHeap
    /\ heap' = make_allocator(flags)
    /\ UNCHANGED <<pc, flags, origin, clvm_in, clvm_out, fuzzVars, costVars>>

ToClvm ==
    /\ pc = "built" /\ clvm_out = NoClvm
    /\ clvm_out' = to_clvm_flags(flags)
    /\ UNCHANGED <<pc, flags, origin, clvm_in, heap, fuzzVars, costVars>>

\* fuzz_target of run-generator.rs: both engines run on the same data with
\* ConsensusFlags::LIMIT_HEAP, then their results are matched
FuzzRunGenerator ==
    /\ pc = "start"
    /\ flags' = LIMIT_HEAP
    /\ \E x1 \in Results, x2 \in Results :
          /\ r1' = x1
          /\ r2' = x2
          /\ verdict' = MatchResults(x1, x2)
    /\ pc' = "done"
    /\ UNCHANGED <<flagVars, costVars>>

\* the evaluator runs the program under the budget and reports its cost
RunProgram ==
    /\ pc = "start"
    /\ \E cs \in CondLists, budget \in 0..MaxBudget, exec \in 0..MaxExecCost :
          /\ conds' = cs
          /\ max_cost' = budget
          /\ spent' = exec
          /\ IF exec > budget
             THEN result' = "CostExceeded" /\ pc' = "done"
             ELSE result' = "none" /\ pc' = "parsing"
    /\ UNCHANGED <<flags, flagVars, fuzzVars, running, idx>>

\* the parser decodes the next condition and adds its cost
ParseCondition ==
    /\ pc = "parsing" /\ idx <= Len(conds)
    /\ running' = running + conds[idx]
    /\ IF CostExceeded(spent, running + conds[idx], max_cost)
       THEN result' = "CostExceeded" /\ pc' = "done" /\ idx' = idx
       ELSE result' = result /\ pc' = pc /\ idx' = idx + 1
    /\ UNCHANGED <<flags, flagVars, fuzzVars, conds, max_cost, spent>>

\* no condition is left: the call returns the conditions
ParseDone ==
    /\ pc = "parsing" /\ idx > Len(conds)
    /\ result' = "Ok"
    /\ pc' = "done"
    /\ UNCHANGED <<flags, flagVars, fuzzVars, conds, max_cost, spent, running, idx>>

\* a caller constructs a flag value, then makes the allocator and the
\* evaluator's flags from it
NextFlags ==
    \/ Extract
    \/ Default
    \/ FromClvm
    \/ UseMempoolMode
    \/ MakeAllocator
    \/ ToClvm

SpecFlags == Init /\ [][NextFlags]_vars

\* one execution of the run-generator fuzz target
NextFuzz == FuzzRunGenerator

SpecFuzz == Init /\ [][NextFuzz]_vars

\* one generator run under a cost budget
NextCost ==
    \/ RunProgram
    \/ ParseCondition
    \/ ParseDone

SpecCost == Init /\ [][NextCost]_vars

----------------------------------------------------------------------------
(* Vocabulary of the properties *)

\* the named ConsensusFlags that mirror an evaluator flag, and the others
SharedIdx == {i \in DOMAIN FLAGS :
                 \E j \in DOMAIN ClvmFlags_FLAGS : ClvmFlags_FLAGS[j].name = FLAGS[i].name}
OnlyIdx == DOMAIN FLAGS \ SharedIdx
SharedRegion == UnionOf(FLAGS, SharedIdx)
OnlyRegion == UnionOf(FLAGS, OnlyIdx)
ConsensusOnlyValues == {UnionOf(FLAGS, S) : S \in SUBSET OnlyIdx}

\* the union of the ConsensusFlags named like the evaluator flags x contains
SameNamed(x) ==
    UnionOf([i \in DOMAIN ClvmFlags_FLAGS |->
                [name |-> ClvmFlags_FLAGS[i].name,
                 bits |-> from_name(ClvmFlags_FLAGS[i].name)]],
            {i \in DOMAIN ClvmFlags_FLAGS : contains(x, ClvmFlags_FLAGS[i].bits)})

\* s1 and s2 contain the same shared flags
AgreeOnShared(s1, s2) ==
    \A i \in SharedIdx : contains(s1, FLAGS[i].bits) <=> contains(s2, FLAGS[i].bits)

\* C1: converting an evaluator flag value to ConsensusFlags yields exactly the
\* same-named flags, sets no consensus-only bit and no bit outside the shared
\* region, and converting back returns the value it started from.
C1_RoundTrip ==
    origin = "from_clvm" =>
        /\ flags = SameNamed(clvm_in)
        /\ intersection(flags, OnlyRegion) = empty
        /\ \A i \in OnlyIdx : ~contains(flags, FLAGS[i].bits)
        /\ difference(flags, SharedRegion) = empty
        /\ clvm_out # NoClvm => clvm_out = clvm_in

\* a value with several evaluator flags went through both conversions
C1_Witness ==
    /\ origin = "from_clvm"
    /\ clvm_in = ClvmFlags_LIMIT_HEAP \cup ClvmFlags_DISABLE_OP \cup ClvmFlags_ENABLE_SECP_OPS
    /\ clvm_out = clvm_in

\* C2: no two of the thirteen named ConsensusFlags share a bit, so two named
\* flags held by one value never cover one another.
C2_NoOverlappingBits ==
    /\ Len(FLAGS) = 13
    /\ Cardinality(SharedIdx) = 7
    /\ Cardinality(OnlyIdx) = 6
    /\ \A i \in DOMAIN FLAGS : \A j \in DOMAIN FLAGS :
          i < j => intersection(FLAGS[i].bits, FLAGS[j].bits) = empty
    /\ \A i \in DOMAIN FLAGS : \A j \in DOMAIN FLAGS :
          (i # j /\ contains(flags, FLAGS[i].bits) /\ contains(flags, FLAGS[j].bits))
              => ~contains(FLAGS[i].bits, FLAGS[j].bits)

\* a value that holds all thirteen flags at once was constructed
C2_Witness ==
    /\ origin = "extract"
    /\ flags = all
    /\ \A i \in DOMAIN FLAGS : contains(flags, FLAGS[i].bits)

\* C3: every evaluator flag has a same-named ConsensusFlags flag with the same
\* bits; so to_clvm_flags(s) is s.bits masked to the shared flags and
\* from_clvm_flags(x) has the bits of x.
C3_BitsMatch ==
    /\ \A j \in DOMAIN ClvmFlags_FLAGS :
          from_name(ClvmFlags_FLAGS[j].name) = ClvmFlags_FLAGS[j].bits
    /\ clvm_out # NoClvm => bits(clvm_out) = bits(intersection(flags, SharedRegion))
    /\ origin = "from_clvm" => bits(flags) = bits(clvm_in)

\* a value mixing shared and consensus-only flags was converted
C3_Witness ==
    /\ origin = "extract"
    /\ bits(flags) = 256 + 2 + 8388608
    /\ clvm_out # NoClvm
    /\ bits(clvm_out) = 256 + 2

\* C4: to_clvm_flags returns the same value for all flag sets that agree on the
\* seven shared flags, returns the empty set for consensus-only flag sets, never
\* returns a consensus-only bit, and is defined for every flag set.
C4_ConsensusOnlyDropped ==
    /\ clvm_out # NoClvm =>
          /\ \A c \in ConsensusOnlyValues :
                LET s2 == union(intersection(flags, SharedRegion), c)
                IN  AgreeOnShared(flags, s2) /\ to_clvm_flags(s2) = clvm_out
          /\ intersection(clvm_out, OnlyRegion) = empty
          /\ (intersection(flags, SharedRegion) = empty => is_empty(clvm_out))
    /\ (pc = "built" /\ clvm_out = NoClvm) => ENABLED ToClvm

\* all six consensus-only flags and nothing else: the conversion is empty
C4_Witness ==
    /\ flags = OnlyRegion
    /\ flags = DONT_VALIDATE_SIGNATURE \cup NO_UNKNOWN_CONDS \cup COMPUTE_FINGERPRINT
                 \cup STRICT_ARGS_COUNT \cup COST_CONDITIONS \cup SIMPLE_GENERATOR
    /\ clvm_out = empty

\* C5: MEMPOOL_MODE contains NO_UNKNOWN_CONDS and STRICT_ARGS_COUNT, these two
\* are its whole consensus-only part, and its shared part is the evaluator's
\* mempool value, whatever that value is.
C5_MempoolMode ==
    origin = "mempool" =>
        /\ contains(flags, NO_UNKNOWN_CONDS)
        /\ contains(flags, STRICT_ARGS_COUNT)
        /\ intersection(flags, OnlyRegion) = NO_UNKNOWN_CONDS \cup STRICT_ARGS_COUNT
        /\ ~contains(flags, DONT_VALIDATE_SIGNATURE)
        /\ ~contains(flags, COMPUTE_FINGERPRINT)
        /\ ~contains(flags, COST_CONDITIONS)
        /\ ~contains(flags, SIMPLE_GENERATOR)
        /\ intersection(flags, SharedRegion) = SameNamed(clvm_in)

\* the constant derived from an evaluator value of two flags
C5_Witness ==
    /\ origin = "mempool"
    /\ clvm_in = ClvmFlags_NO_UNKNOWN_OPS \cup ClvmFlags_LIMIT_HEAP
    /\ flags = NO_UNKNOWN_OPS \cup LIMIT_HEAP \cup NO_UNKNOWN_CONDS \cup STRICT_ARGS_COUNT

\* C6: the allocator is capped at 500,000,000 (7629 * 65536 + 25856) exactly
\* when LIMIT_HEAP is set and at u32::MAX otherwise; no other flag changes the
\* cap, and the limited cap is below the unlimited one.
C6_HeapPolicy ==
    /\ U32Less(make_allocator(LIMIT_HEAP), make_allocator(empty))
    /\ heap # NoHeap =>
          /\ heap = <<7629, 25856>> <=> contains(flags, LIMIT_HEAP)
          /\ ~contains(flags, LIMIT_HEAP) => heap = <<65535, 65535>>
          /\ \A i \in DOMAIN FLAGS :
                FLAGS[i].bits # LIMIT_HEAP =>
                    /\ make_allocator(union(flags, FLAGS[i].bits)) = heap
                    /\ make_allocator(difference(flags, FLAGS[i].bits)) = heap

\* a limited heap was made for a flag set holding more than LIMIT_HEAP
C6_Witness ==
    /\ flags = LIMIT_HEAP \cup NO_UNKNOWN_OPS \cup STRICT_ARGS_COUNT
    /\ heap = <<7629, 25856>>

\* C10: every shared flag lies below bit 16 and every consensus-only flag at
\* bit 16 or above, so the shared part of a value is its low 16 bits.
C10_DisjointRanges ==
    /\ \A i \in SharedIdx : \A b \in FLAGS[i].bits : b < 16
    /\ \A i \in OnlyIdx : \A b \in FLAGS[i].bits : b >= 16 /\ b < 32
    /\ \A i \in SharedIdx : \A j \in OnlyIdx : bits(FLAGS[i].bits) < bits(FLAGS[j].bits)
    /\ intersection(flags, SharedRegion) = {b \in flags : b < 16}
    /\ intersection(flags, OnlyRegion) = {b \in flags : b >= 16}

\* a value with flags of both regions
C10_Witness ==
    /\ origin = "extract"
    /\ flags = ENABLE_SECP_OPS \cup DONT_VALIDATE_SIGNATURE
    /\ bits(flags) % 65536 = 2048

\* the relations the two engines' conditions must satisfy: total cost and
\* execution cost of v1 at least v2's, the four totals equal
Relations(a, b) ==
    /\ a.cost >= b.cost
    /\ a.execution_cost >= b.execution_cost
    /\ a.condition_cost = b.condition_cost
    /\ a.reserve_fee = b.reserve_fee
    /\ a.removal_amount = b.removal_amount
    /\ a.addition_amount = b.addition_amount

\* C7: when both engines succeed, the fuzz target accepts the pair exactly when
\* v1's total cost >= v2's, v1's execution cost >= v2's (equal execution costs
\* included) and condition cost, reserve fee, removal amount and addition
\* amount are equal.
C7_NonStrictRelations ==
    (pc = "done" /\ r1.ok /\ r2.ok) =>
        (verdict = "accepted" <=> Relations(r1.c, r2.c))

RequiredCost == spent + PrefixCost(conds, Len(conds))

\* C9: a run with budget C (the required cost) succeeds and one with budget
\* C - 1 ends in CostExceeded; the parser aborts at the first condition whose
\* cost brings cost_already_spent + running_cost above max_cost, decodes no
\* condition after it, and never aborts while the sum is within max_cost.
C9_CostBudget ==
    /\ pc = "parsing" =>
          /\ result = "none"
          /\ running = PrefixCost(conds, idx - 1)
          /\ spent + running <= max_cost
    /\ pc = "done" =>
          /\ max_cost = RequiredCost => result = "Ok"
          /\ max_cost = RequiredCost - 1 => result = "CostExceeded"
          /\ result = "Ok" <=> RequiredCost <= max_cost
          /\ result = "Ok" => running = PrefixCost(conds, Len(conds))
    /\ result = "CostExceeded" =>
          \/ spent > max_cost /\ running = 0
          \/ /\ spent <= max_cost
             /\ idx \in 1..Len(conds)
             /\ running = PrefixCost(conds, idx)
             /\ spent + running > max_cost
             /\ \A k \in 0..(idx - 1) : spent + PrefixCost(conds, k) <= max_cost

\* budget one below the required cost: aborted at the second of three conditions
C9_Witness ==
    /\ pc = "done"
    /\ conds = <<1, 2, 0>> /\ spent = 1
    /\ max_cost = RequiredCost - 1
    /\ result = "CostExceeded" /\ idx = 2 /\ running = 3

====
